---- MODULE Spec2Model ----
(***************************************************************************)
(* Model of nutstools (src/src/nutstools/postalnuts.py, main.py).          *)
(*                                                                         *)
(* Three components are modelled:                                          *)
(*   - NutsPostalCode: the loader (__init__) and the two resolvers         *)
(*     one_postal2nuts and postal2nuts       (specification SpecResolver)  *)
(*   - NutsData: the constructor with the settings file, the cache and     *)
(*     the download                          (specification SpecData)      *)
(*   - check_if_valid_nuts_level of main.py  (specification SpecLevel)     *)
(*                                                                         *)
(* A string is a sequence of one-character strings.                        *)
(***************************************************************************)
EXTENDS Integers, Sequences, FiniteSets, TLC

VARIABLES
    file,        \* rows of the source table as read by pd.read_csv
    nuts_data,   \* NutsPostalCode.nuts_data: the Series postal key -> NUTS code
    last,        \* the last resolver call: operation, arguments and outcome
    fs,          \* the file system seen by NutsData: settings file and table files
    nd,          \* the NutsData object of the last construction
    call,        \* the last NutsData construction: arguments and outcome
    checked      \* the last check_if_valid_nuts_level call: argument, outcome

vars == <<file, nuts_data, last, fs, nd, call, checked>>

resolverVars == <<file, nuts_data, last>>
dataVars == <<fs, nd, call>>
levelVars == <<checked>>

---------------------------------------------------------------------------
(* Bounds *)

MaxRows == 2        \* rows of a source table
MaxCodes == 2       \* postal codes in one postal2nuts call
MaxLevelLen == 3    \* characters of a --level argument

---------------------------------------------------------------------------
(* Strings *)

RECURSIVE RemoveChars(_, _)
\* s with every character of the set cs removed (str.replace(c, ""),
\* re.sub of a one-character class by "")
RemoveChars(s, cs) ==
    IF s = <<>> THEN <<>>
    ELSE IF Head(s) \in cs THEN RemoveChars(Tail(s), cs)
         ELSE <<Head(s)>> \o RemoveChars(Tail(s), cs)

\* the characters the regular expression \s matches
Whitespace == {" ", "\t", "\n"}

\* str.upper on one character
UpperChar(c) ==
    CASE c = "a" -> "A"
      [] c = "b" -> "B"
      [] c = "z" -> "Z"
      [] OTHER -> c

\* str.upper
Upper(s) == [i \in 1..Len(s) |-> UpperChar(s[i])]

\* re.sub("." * n + "$", "", code): the last n characters are removed when
\* the pattern matches, that is when the code has at least n characters;
\* otherwise the code is returned as it is
ReSubTail(n, code) ==
    IF Len(code) >= n THEN SubSeq(code, 1, Len(code) - n) ELSE code

---------------------------------------------------------------------------
(* Inputs *)

\* NUTS cells of a source table: a country code, a level-1 code and a full
\* level-3 code
NutsCells ==
    { <<"N", "L">>, <<"N", "L", "3">>, <<"N", "L", "3", "3", "A">> }

\* postal-code cells of a source table: quoted as in the published files,
\* lower case, with a space
PostalCells ==
    { <<"'", "1", "A", "'">>, <<"1", "a">>, <<"2", " ", "B">> }

Rows == [nuts : NutsCells, postal : PostalCells]

RECURSIVE SeqsUpTo(_, _)
\* the sequences over S of length at most n
SeqsUpTo(S, n) ==
    IF n = 0 THEN {<<>>}
    ELSE LET shorter == SeqsUpTo(S, n - 1)
         IN  shorter \cup {Append(s, x) : s \in shorter, x \in S}

Files == SeqsUpTo(Rows, MaxRows)

\* raw postal codes passed to the resolvers
RawCodes ==
    { <<"1", "A">>, <<"1", " ", "a">>, <<"1", "\t", "A">>,
      <<" ", "2", "b", " ">>, <<"9", "Z">> }

\* arguments of one_postal2nuts: strings and non-strings (6, None)
StrArg(s) == [isstr |-> TRUE, s |-> s]
NonStrArgs == { [isstr |-> FALSE, s |-> <<"6">>], [isstr |-> FALSE, s |-> <<>>] }
OneArgs == {StrArg(s) : s \in RawCodes} \cup NonStrArgs

Levels == {-1, 0, 1, 2, 3, 4}
ValidLevels == {0, 1, 2, 3}

---------------------------------------------------------------------------
(* NutsPostalCode.__init__: the loader *)

\* .str.replace("'", "").replace(r"\s", "", regex=True) on one cell
CleanCell(c) == RemoveChars(RemoveChars(c, {"'"}), Whitespace)

\* the Series built by set_index(postal_codes_key)[nuts_key]: one entry per
\* source row, in file order, indexed by the cleaned postal-code cell
LoadTable(f) ==
    [i \in 1..Len(f) |-> [key |-> CleanCell(f[i].postal),
                          val |-> CleanCell(f[i].nuts)]]

\* the index labels of a Series
Keys(series) == {series[i].key : i \in 1..Len(series)}

\* the values stored under a label, in index order
ValuesAt(series, key) ==
    LET hits == SelectSeq(series, LAMBDA e : e.key = key)
    IN  [i \in 1..Len(hits) |-> hits[i].val]

\* Index.is_unique
IsUnique(series) == Cardinality(Keys(series)) = Len(series)

---------------------------------------------------------------------------
(* Outcomes of a resolver call *)

NoString == <<>>

Returned(v) ==
    [tag |-> "value", val |-> v, vals |-> <<>>, items |-> <<>>,
     exc |-> "", at |-> ""]

\* the not-found sentinel of one_postal2nuts
ReturnedNone ==
    [tag |-> "none", val |-> NoString, vals |-> <<>>, items |-> <<>>,
     exc |-> "", at |-> ""]

\* .loc on a label that occurs several times returns all its values
ReturnedSeveral(vs) ==
    [tag |-> "several", val |-> NoString, vals |-> vs, items |-> <<>>,
     exc |-> "", at |-> ""]

\* the Series returned by postal2nuts: one item per requested code
ReturnedSeries(its) ==
    [tag |-> "series", val |-> NoString, vals |-> <<>>, items |-> its,
     exc |-> "", at |-> ""]

Raised(e, where) ==
    [tag |-> "raise", val |-> NoString, vals |-> <<>>, items |-> <<>>,
     exc |-> e, at |-> where]

---------------------------------------------------------------------------
(* NutsPostalCode.one_postal2nuts *)

\* postal_code.replace(" ", "") followed by .upper()
OneNormalize(s) == Upper(RemoveChars(s, {" "}))

\* the three re.sub branches; any other level leaves the code as it is
OneTruncate(level, code) ==
    IF level = 2 THEN ReSubTail(1, code)
    ELSE IF level = 1 THEN ReSubTail(2, code)
    ELSE IF level = 0 THEN ReSubTail(3, code)
    ELSE code

\* OneLookup without the except KeyError branch: the miss escapes
OneLookup_KeyErrorEscapes(series, key, level) ==
    LET vs == ValuesAt(series, key)
    IN  IF Len(vs) = 0 THEN Raised("KeyError", "loc")
        ELSE IF Len(vs) = 1 THEN Returned(OneTruncate(level, vs[1]))
        ELSE IF level \in {0, 1, 2} THEN Raised("TypeError", "re.sub")
        ELSE ReturnedSeveral(vs)

\* the outcome of self.nuts_data.loc[postal_code] and what follows it
OneLookup(series, key, level) ==
    LET vs == ValuesAt(series, key)
    IN  IF Len(vs) = 0 THEN ReturnedNone
        ELSE IF Len(vs) = 1 THEN Returned(OneTruncate(level, vs[1]))
        ELSE IF level \in {0, 1, 2} THEN Raised("TypeError", "re.sub")
        ELSE ReturnedSeveral(vs)

\* one_postal2nuts that converts its argument with str() instead of failing
one_postal2nuts_Coerces(series, arg, level) ==
    OneLookup(series, OneNormalize(arg.s), level)

one_postal2nuts(series, arg, level) ==
    IF ~arg.isstr THEN Raised("AttributeError", "replace")
    ELSE OneLookup(series, OneNormalize(arg.s), level)

---------------------------------------------------------------------------
(* NutsPostalCode.postal2nuts *)

\* .str.replace(r"\s", "", regex=True) followed by .str.upper()
ManyNormalize(s) == Upper(RemoveChars(s, Whitespace))

\* the three .str.replace branches; a missing value stays missing
ManyTruncate(level, code) ==
    IF level = 2 THEN ReSubTail(1, code)
    ELSE IF level = 1 THEN ReSubTail(2, code)
    ELSE IF level = 0 THEN ReSubTail(3, code)
    ELSE code

\* the labels of a Series, in index order
Labels(series) == [i \in 1..Len(series) |-> series[i].key]

\* self.nuts_data.reindex(postal_codes) when every requested label is
\* looked up: the stored value, or a missing value for an unknown label
Reindex(series, keys) ==
    [i \in 1..Len(keys) |->
        LET vs == ValuesAt(series, keys[i])
        IN  IF Len(vs) = 0
            THEN [key |-> keys[i], absent |-> TRUE, val |-> NoString]
            ELSE [key |-> keys[i], absent |-> FALSE, val |-> vs[1]]]

\* postal2nuts behind its level check.  reindex returns the Series as it is
\* when the requested labels equal its index, raises ValueError when the
\* index holds a label twice, and looks every label up otherwise
ManyLookup(series, codes, level) ==
    LET keys == [i \in 1..Len(codes) |-> ManyNormalize(codes[i])]
        hits == IF keys = Labels(series)
                THEN [i \in 1..Len(series) |->
                        [key |-> series[i].key, absent |-> FALSE,
                         val |-> series[i].val]]
                ELSE Reindex(series, keys)
    IN  IF keys # Labels(series) /\ ~IsUnique(series)
        THEN Raised("ValueError", "reindex")
        ELSE ReturnedSeries(
                [i \in 1..Len(hits) |->
                    IF hits[i].absent THEN hits[i]
                    ELSE [hits[i] EXCEPT !.val = ManyTruncate(level, @)]])

\* postal2nuts with the level check moved behind the lookup
postal2nuts_ChecksLevelLast(series, codes, level) ==
    LET r == ManyLookup(series, codes, level)
    IN  IF r.tag = "raise" THEN r
        ELSE IF level \notin ValidLevels THEN Raised("ValueError", "level")
        ELSE r

postal2nuts(series, codes, level) ==
    IF level \notin ValidLevels THEN Raised("ValueError", "level")
    ELSE ManyLookup(series, codes, level)

---------------------------------------------------------------------------
(* The record of a resolver call *)

NoArg == [isstr |-> FALSE, s |-> <<>>]

NoCall ==
    [op |-> "none", arg |-> NoArg, codes |-> <<>>, level |-> 3,
     res |-> ReturnedNone]

---------------------------------------------------------------------------
(* nutsdata.py: the built-in defaults and the catalog *)

None == "None"

DEFAULT_YEAR == "2021"
DEFAULT_COUNTRY == "NL"

\* the catalog, with two of its countries
NUTS_DATA ==
    [y \in {"2021"} |->
        [url |-> "https://gisco-services.ec.europa.eu/tercet/NUTS-2021/",
         files |-> [c \in {"NL", "BE"} |->
                      IF c = "NL" THEN "pc2020_NL_NUTS-2021_v2.0.zip"
                      ELSE "pc2020_BE_NUTS-2021_v1.0.zip"]]]

\* a catalog as a user may have edited it in the settings file: another
\* server and a newer file for NL
EditedCatalog ==
    [y \in {"2021"} |->
        [url |-> "https://mirror.example.org/NUTS-2021/",
         files |-> [c \in {"NL", "BE"} |->
                      IF c = "NL" THEN "pc2020_NL_NUTS-2021_v3.0.zip"
                      ELSE "pc2020_BE_NUTS-2021_v1.0.zip"]]]

\* no catalog: the settings file does not exist
NoCatalog == <<>>

\* year and country arguments: absent, in the catalog, not in the catalog
YearArgs == {None, "2021", "1999"}
CountryArgs == {None, "NL", "BE", "XX"}

---------------------------------------------------------------------------
(* The file system *)

\* self.cache_directory / Path(remote_file_name)
CachePath(remote_file_name) == <<"Cache", remote_file_name>>

\* the table file a caller passes as nuts_file_name
UserPath == <<"tests", "selection.csv">>

\* self.nuts_codes_file: Path = Path("."), the directory the process runs in
DotPath == <<".">>

TablePaths ==
    {CachePath(NUTS_DATA[y].files[c]) :
        y \in DOMAIN NUTS_DATA, c \in {"NL", "BE"}} \cup {UserPath}

\* content of a path: "absent" for no file, "table" for the table the caller
\* put there, "body" for a downloaded response body
Absent == "absent"

NoSettings ==
    [exists |-> FALSE, year |-> None, country |-> None, catalog |-> NoCatalog]

\* Path.exists(); the current directory always exists
Exists(files, path) ==
    IF path = DotPath THEN TRUE
    ELSE IF path \in DOMAIN files THEN files[path] # Absent
    ELSE FALSE

---------------------------------------------------------------------------
(* NutsData *)

NoUrl == <<>>

\* the write of default_settings without its condition
WriteSettings_Always(settings, year, country, update_settings) ==
    [exists |-> TRUE,
     year |-> IF year # None THEN year ELSE DEFAULT_YEAR,
     country |-> IF country # None THEN country ELSE DEFAULT_COUNTRY,
     catalog |-> NUTS_DATA]

\* the settings file after the write of default_settings, which happens when
\* the file does not exist or update_settings is given
WriteSettings(settings, year, country, update_settings) ==
    IF ~settings.exists \/ update_settings
    THEN [exists |-> TRUE,
          year |-> IF year # None THEN year ELSE DEFAULT_YEAR,
          country |-> IF country # None THEN country ELSE DEFAULT_COUNTRY,
          catalog |-> NUTS_DATA]
    ELSE settings

\* impose_nuts_settings with the country looked up before the year
impose_nuts_settings_CountryFirst(settings) ==
    LET year == settings.year
        country == settings.country
    IN  IF country \notin {"NL", "BE"}
        THEN [raised |-> "KeyError country", year |-> year,
              country |-> country, url |-> NoUrl,
              nuts_codes_file |-> DotPath]
        ELSE IF year \notin DOMAIN NUTS_DATA
        THEN [raised |-> "KeyError year", year |-> year, country |-> country,
              url |-> NoUrl, nuts_codes_file |-> DotPath]
        ELSE [raised |-> "", year |-> year, country |-> country,
              url |-> <<NUTS_DATA[year].url, "/",
                        NUTS_DATA[year].files[country]>>,
              nuts_codes_file |-> CachePath(NUTS_DATA[year].files[country])]

\* impose_nuts_settings on the settings read from the file
impose_nuts_settings(settings) ==
    LET year == settings.year
        country == settings.country
    IN  IF year \notin DOMAIN NUTS_DATA
        THEN [raised |-> "KeyError year", year |-> year, country |-> country,
              url |-> NoUrl, nuts_codes_file |-> DotPath]
        ELSE IF country \notin DOMAIN NUTS_DATA[year].files
        THEN [raised |-> "KeyError country", year |-> year,
              country |-> country, url |-> <<NUTS_DATA[year].url>>,
              nuts_codes_file |-> DotPath]
        ELSE [raised |-> "", year |-> year, country |-> country,
              url |-> <<NUTS_DATA[year].url, "/",
                        NUTS_DATA[year].files[country]>>,
              nuts_codes_file |-> CachePath(NUTS_DATA[year].files[country])]

\* the caller's file replaces the cache path when it is given and exists
SelectFile(nuts_codes_file, nuts_file_name, files) ==
    IF nuts_file_name # None /\ Exists(files, nuts_file_name)
    THEN nuts_file_name
    ELSE nuts_codes_file

\* the download decision without force_download
NeedsDownload_IgnoresForce(files, nuts_codes_file, force_download) ==
    ~Exists(files, nuts_codes_file)

\* if not self.nuts_codes_file.exists() or force_download
NeedsDownload(files, nuts_codes_file, force_download) ==
    ~Exists(files, nuts_codes_file) \/ force_download

\* what session.get meets: the status code of the response, or no response
\* at all (a transport failure, which makes session.get raise)
TransportFailure == 0
Responses == {200, 304, 404, TransportFailure}

\* request.ok: the status code is not a 4xx or 5xx one
Ok(resp) == resp < 400

\* download_nuts_codes: one session.get; the body of an ok response is
\* written to nuts_codes_file; session.get raises on a transport failure
download_nuts_codes(files, nuts_codes_file, resp) ==
    IF resp = TransportFailure
    THEN [raised |-> "ConnectionError", success |-> FALSE, files |-> files]
    ELSE IF Ok(resp)
    THEN [raised |-> "", success |-> TRUE,
          files |-> [files EXCEPT ![nuts_codes_file] = "body"]]
    ELSE [raised |-> "", success |-> FALSE, files |-> files]

\* the value download_nuts_codes hands back
DownloadResult(dl) ==
    IF dl.raised # "" THEN "raised"
    ELSE IF dl.success THEN "True" ELSE "False"

\* NutsData.__init__ from the file system before, as a record of the file
\* system after, the object's attributes, the number of requests, the
\* outcome of download_nuts_codes and the exception raised ("" for none)
NutsDataInit(before, year, country, nuts_file_name, update, force, resp) ==
    LET settings == WriteSettings(before.settings, year, country, update)
        imposed == impose_nuts_settings(settings)
        chosen == SelectFile(imposed.nuts_codes_file, nuts_file_name,
                             before.files)
        attrs == [year |-> imposed.year, country |-> imposed.country,
                  url |-> imposed.url, nuts_codes_file |-> chosen,
                  settings |-> settings]
        needs == NeedsDownload(before.files, chosen, force)
        dl == download_nuts_codes(before.files, chosen, resp)
        files == IF needs THEN dl.files ELSE before.files
    IN  IF imposed.raised # ""
        THEN [fs |-> [settings |-> settings, files |-> before.files],
              nd |-> [attrs EXCEPT !.nuts_codes_file = DotPath],
              requests |-> 0, download |-> "not called",
              raised |-> imposed.raised]
        ELSE IF needs /\ dl.raised # ""
        THEN [fs |-> [settings |-> settings, files |-> files],
              nd |-> attrs, requests |-> 1, download |-> DownloadResult(dl),
              raised |-> dl.raised]
        ELSE [fs |-> [settings |-> settings, files |-> files],
              nd |-> attrs, requests |-> IF needs THEN 1 ELSE 0,
              download |-> IF needs THEN DownloadResult(dl)
                           ELSE "not called",
              raised |-> IF Exists(files, chosen) THEN ""
                         ELSE "FileNotFoundError"]

---------------------------------------------------------------------------
(* check_if_valid_nuts_level (main.py) *)

\* the characters of a --level argument: digits in and out of the range, a
\* sign, a space and a letter
LevelChars == {"0", "3", "4", "-", " ", "f"}

\* the arguments: strings, as argparse passes them; integers, as the tests
\* pass them; and None, an argument that is neither text nor a number
LevelStrings ==
    SeqsUpTo(LevelChars, MaxLevelLen) \cup {<<"f", "o", "u", "r">>}
LevelInts == -1..5
LevelArgs ==
    {[kind |-> "str", s |-> s, n |-> 0] : s \in LevelStrings}
        \cup {[kind |-> "int", s |-> <<>>, n |-> n] : n \in LevelInts}
        \cup {[kind |-> "NoneType", s |-> <<>>, n |-> 0]}

RECURSIVE LStrip(_)
\* str.lstrip()
LStrip(s) ==
    IF s = <<>> THEN <<>>
    ELSE IF Head(s) \in Whitespace THEN LStrip(Tail(s)) ELSE s

RECURSIVE RStrip(_)
\* str.rstrip()
RStrip(s) ==
    IF s = <<>> THEN <<>>
    ELSE IF s[Len(s)] \in Whitespace THEN RStrip(SubSeq(s, 1, Len(s) - 1))
         ELSE s

Digits == {"0", "1", "2", "3", "4", "5", "6", "7", "8", "9"}

DigitValue(c) ==
    CASE c = "0" -> 0 [] c = "1" -> 1 [] c = "2" -> 2 [] c = "3" -> 3
      [] c = "4" -> 4 [] c = "5" -> 5 [] c = "6" -> 6 [] c = "7" -> 7
      [] c = "8" -> 8 [] OTHER -> 9

RECURSIVE DecimalValue(_)
\* the number a string of digits denotes
DecimalValue(ds) ==
    IF ds = <<>> THEN 0
    ELSE 10 * DecimalValue(SubSeq(ds, 1, Len(ds) - 1))
            + DigitValue(ds[Len(ds)])

\* int(str): surrounding whitespace is dropped, then an optional sign and at
\* least one digit must remain; anything else is a ValueError
IntOfStr(s) ==
    LET t == RStrip(LStrip(s))
        signed == t # <<>> /\ Head(t) \in {"-", "+"}
        ds == IF signed THEN Tail(t) ELSE t
    IN  IF ds # <<>> /\ \A i \in 1..Len(ds) : ds[i] \in Digits
        THEN [exc |-> "",
              n |-> IF signed /\ Head(t) = "-" THEN 0 - DecimalValue(ds)
                    ELSE DecimalValue(ds)]
        ELSE [exc |-> "ValueError", n |-> 0]

\* int(value): an int is itself, a string is parsed, None is a TypeError
ToInt(value) ==
    IF value.kind = "int" THEN [exc |-> "", n |-> value.n]
    ELSE IF value.kind = "str" THEN IntOfStr(value.s)
    ELSE [exc |-> "TypeError", n |-> 0]

LevelReturned(n) == [tag |-> "returned", n |-> n, exc |-> ""]
LevelRaised(exc) == [tag |-> "raised", n |-> 0, exc |-> exc]

\* the check without its lower limit
check_if_valid_nuts_level_NoLowerLimit(value) ==
    LET converted == ToInt(value)
    IN  IF converted.exc = "ValueError"
        THEN LevelRaised("ArgumentTypeError")
        ELSE IF converted.exc # "" THEN LevelRaised(converted.exc)
        ELSE IF ~(converted.n <= 3)
        THEN LevelRaised("ArgumentTypeError")
        ELSE LevelReturned(converted.n)

\* check_if_valid_nuts_level: the ValueError of int() and the AssertionError
\* of the range check become ArgumentTypeError; any other exception of
\* int() leaves the function as it is
check_if_valid_nuts_level(value) ==
    LET converted == ToInt(value)
    IN  IF converted.exc = "ValueError"
        THEN LevelRaised("ArgumentTypeError")
        ELSE IF converted.exc # "" THEN LevelRaised(converted.exc)
        ELSE IF ~(0 <= converted.n /\ converted.n <= 3)
        THEN LevelRaised("ArgumentTypeError")
        ELSE LevelReturned(converted.n)

NoCheck ==
    [op |-> "none", value |-> [kind |-> "NoneType", s |-> <<>>, n |-> 0],
     res |-> LevelRaised("")]

---------------------------------------------------------------------------
(* NutsData as a state machine *)

NoObject ==
    [year |-> None, country |-> None, url |-> NoUrl,
     nuts_codes_file |-> DotPath, settings |-> NoSettings]

NoFs == [settings |-> NoSettings, files |-> [p \in TablePaths |-> Absent]]

NoConstruction ==
    [op |-> "none", year |-> None, country |-> None, nuts_file_name |-> None,
     update_settings |-> FALSE, force_download |-> FALSE, resp |-> 200,
     before |-> NoFs, requests |-> 0, download |-> "not called",
     raised |-> ""]

\* a fresh directory; the caller's table file may or may not be there
InitData ==
    /\ \E user \in {Absent, "table"} :
          fs = [settings |-> NoSettings,
                files |-> [p \in TablePaths |->
                             IF p = UserPath THEN user ELSE Absent]]
    /\ nd = NoObject
    /\ call = NoConstruction
    /\ file = <<>> /\ nuts_data = <<>> /\ last = NoCall
    /\ checked = NoCheck

Construct ==
    \E year \in YearArgs, country \in CountryArgs,
       nuts_file_name \in {None, UserPath},
       update_settings \in BOOLEAN, force_download \in BOOLEAN,
       resp \in Responses :
        LET r == NutsDataInit(fs, year, country, nuts_file_name,
                              update_settings, force_download, resp)
        IN  /\ call.op = "none"
            /\ fs' = r.fs
            /\ nd' = r.nd
            /\ call' = [op |-> "construct", year |-> year,
                        country |-> country,
                        nuts_file_name |-> nuts_file_name,
                        update_settings |-> update_settings,
                        force_download |-> force_download, resp |-> resp,
                        before |-> fs, requests |-> r.requests,
                        download |-> r.download, raised |-> r.raised]
            /\ UNCHANGED resolverVars
            /\ UNCHANGED levelVars

\* the second call without the assignment to nuts_codes_file
ImposeAgain_KeepsFile ==
    /\ call.op = "construct"
    /\ call.raised = ""
    /\ LET imposed == impose_nuts_settings(nd.settings)
       IN  nd' = [nd EXCEPT !.year = imposed.year,
                            !.country = imposed.country,
                            !.url = imposed.url]
    /\ call' = [call EXCEPT !.op = "impose"]
    /\ UNCHANGED fs
    /\ UNCHANGED resolverVars
    /\ UNCHANGED levelVars

\* the caller calls impose_nuts_settings() on the object it got, as the
\* tests do; the method reads self.settings, not the file
ImposeAgain ==
    /\ call.op = "construct"
    /\ call.raised = ""
    /\ LET imposed == impose_nuts_settings(nd.settings)
       IN  nd' = [nd EXCEPT !.year = imposed.year,
                            !.country = imposed.country,
                            !.url = imposed.url,
                            !.nuts_codes_file = imposed.nuts_codes_file]
    /\ call' = [call EXCEPT !.op = "impose"]
    /\ UNCHANGED fs
    /\ UNCHANGED resolverVars
    /\ UNCHANGED levelVars

\* the user edits the defaults in the settings file (docstring of NutsData)
EditSettings ==
    /\ call.op = "none"
    /\ fs.settings.exists
    /\ \E year \in YearArgs \ {None}, country \in CountryArgs \ {None},
          catalog \in {NUTS_DATA, EditedCatalog} :
          fs' = [fs EXCEPT !.settings.year = year,
                           !.settings.country = country,
                           !.settings.catalog = catalog]
    /\ UNCHANGED <<nd, call>>
    /\ UNCHANGED resolverVars
    /\ UNCHANGED levelVars

\* the construction is over: the caller keeps or drops the object, the file
\* system stays as the construction left it
ReturnData ==
    /\ call.op # "none"
    /\ call' = NoConstruction
    /\ nd' = NoObject
    /\ UNCHANGED fs
    /\ UNCHANGED resolverVars
    /\ UNCHANGED levelVars

NextData == Construct \/ ImposeAgain \/ EditSettings \/ ReturnData

---------------------------------------------------------------------------
(* The resolver as a state machine *)

InitResolver ==
    /\ file \in Files
    /\ nuts_data = LoadTable(file)
    /\ last = NoCall
    /\ fs = NoFs /\ nd = NoObject /\ call = NoConstruction
    /\ checked = NoCheck

CallOne ==
    \E arg \in OneArgs, level \in Levels :
        /\ last.op = "none"
        /\ last' = [op |-> "one", arg |-> arg, codes |-> <<>>, level |-> level,
                    res |-> one_postal2nuts(nuts_data, arg, level)]
        /\ UNCHANGED <<file, nuts_data>>
        /\ UNCHANGED dataVars
        /\ UNCHANGED levelVars

CallMany ==
    \E codes \in SeqsUpTo(RawCodes, MaxCodes), level \in Levels :
        /\ last.op = "none"
        /\ last' = [op |-> "many", arg |-> NoArg, codes |-> codes,
                    level |-> level,
                    res |-> postal2nuts(nuts_data, codes, level)]
        /\ UNCHANGED <<file, nuts_data>>
        /\ UNCHANGED dataVars
        /\ UNCHANGED levelVars

\* the caller takes the outcome; the table stays loaded for the next call
ReturnResolver ==
    /\ last.op # "none"
    /\ last' = NoCall
    /\ UNCHANGED <<file, nuts_data>>
    /\ UNCHANGED dataVars
    /\ UNCHANGED levelVars

NextResolver == CallOne \/ CallMany \/ ReturnResolver

---------------------------------------------------------------------------
(* Specifications *)

SpecResolver == InitResolver /\ [][NextResolver]_vars

SpecData == InitData /\ [][NextData]_vars

---------------------------------------------------------------------------
(* check_if_valid_nuts_level as a state machine *)

InitLevel ==
    /\ checked = NoCheck
    /\ file = <<>> /\ nuts_data = <<>> /\ last = NoCall
    /\ fs = NoFs /\ nd = NoObject /\ call = NoConstruction

CheckLevel ==
    \E value \in LevelArgs :
        /\ checked.op = "none"
        /\ checked' = [op |-> "check", value |-> value,
                       res |-> check_if_valid_nuts_level(value)]
        /\ UNCHANGED resolverVars
        /\ UNCHANGED dataVars

\* the caller (argparse, a test) takes the outcome
ReturnLevel ==
    /\ checked.op # "none"
    /\ checked' = NoCheck
    /\ UNCHANGED resolverVars
    /\ UNCHANGED dataVars

NextLevel == CheckLevel \/ ReturnLevel

SpecLevel == InitLevel /\ [][NextLevel]_vars

---------------------------------------------------------------------------
(* Vocabulary of the properties *)

\* the normalized form of a postal code: all whitespace removed, upper case
Normalized(s) == Upper(RemoveChars(s, Whitespace))

\* c with its last n characters removed (all of c when it has fewer)
DropLast(c, n) == IF Len(c) > n THEN SubSeq(c, 1, Len(c) - n) ELSE <<>>

\* the value of the last entry stored under a label
LastValueAt(series, key) ==
    LET vs == ValuesAt(series, key) IN vs[Len(vs)]

OneCalled == last.op = "one"
ManyCalled == last.op = "many"
Constructed == call.op = "construct"

---------------------------------------------------------------------------
(* Properties of the resolvers, under SpecResolver *)

\* C1: two raw postal codes that differ only in whitespace or letter case
\* get the same result from one_postal2nuts at level 3.
C1_VariantsAgree ==
    (OneCalled /\ last.arg.isstr /\ last.level = 3) =>
        \A q \in RawCodes :
            Normalized(q) = Normalized(last.arg.s) =>
                one_postal2nuts(nuts_data, StrArg(q), 3) = last.res

\* C2: for a postal code stored with region code c and a level L in 0..3,
\* one_postal2nuts returns c without its last 3-L characters, whatever the
\* length of c.
C2_TruncatedToLevel ==
    (/\ OneCalled /\ last.arg.isstr /\ last.level \in ValidLevels
     /\ Len(ValuesAt(nuts_data, OneNormalize(last.arg.s))) = 1) =>
        last.res =
            Returned(DropLast(LastValueAt(nuts_data, OneNormalize(last.arg.s)),
                              3 - last.level))

\* C3: one_postal2nuts with a level outside 0..3 fails with an invalid-level
\* error for every postal code, present or not.
C3_OneRejectsLevel ==
    (OneCalled /\ last.arg.isstr /\ last.level \notin ValidLevels) =>
        (last.res.tag = "raise" /\ last.res.at = "level")

C5_MissReturnsNone ==
    (/\ OneCalled /\ last.arg.isstr /\ last.level \in ValidLevels
     /\ Normalized(last.arg.s) \notin Keys(nuts_data)) =>
        (last.res = ReturnedNone /\ nuts_data = LoadTable(file))

\* C5 witness: a miss on a table that has entries
C5_Witness ==
    /\ OneCalled /\ last.arg.isstr /\ last.level \in ValidLevels
    /\ Len(nuts_data) > 0
    /\ Normalized(last.arg.s) \notin Keys(nuts_data)
    /\ last.res.tag = "none"

\* C6: one_postal2nuts on a non-string postal code raises AttributeError at
\* every level and never returns None.
C6_NonStringRaises ==
    (OneCalled /\ ~last.arg.isstr) =>
        (last.res = Raised("AttributeError", "replace")
         /\ last.res # ReturnedNone)

\* C6 witness: the integer 6 passed as postal code
C6_Witness ==
    /\ OneCalled /\ ~last.arg.isstr /\ last.arg.s = <<"6">>
    /\ last.res.tag = "raise"

\* C7: postal2nuts at a level 0..3 returns one item per input code, in
\* input order, keyed by the normalized code, holding the region code
\* truncated to the level or an absent marker; a miss never raises.
C7_ManyItemPerCode ==
    (ManyCalled /\ last.level \in ValidLevels) =>
        /\ last.res.tag = "series"
        /\ Len(last.res.items) = Len(last.codes)
        /\ \A i \in 1..Len(last.res.items) :
              LET it == last.res.items[i]
                  key == Normalized(last.codes[i])
              IN  /\ it.key = key
                  /\ it.absent = (key \notin Keys(nuts_data))
                  /\ ~it.absent =>
                        it.val = DropLast(LastValueAt(nuts_data, key),
                                          3 - last.level)

\* C8: the table maps each postal code to exactly one region code, the one
\* of the last source row with that code; both resolvers return that single
\* code for a code that several rows share.
C8_LastRowWins ==
    /\ (/\ OneCalled /\ last.arg.isstr /\ last.level = 3
        /\ OneNormalize(last.arg.s) \in Keys(nuts_data)) =>
            last.res =
                Returned(LastValueAt(nuts_data, OneNormalize(last.arg.s)))
    /\ (/\ ManyCalled /\ last.level = 3
        /\ \E i \in 1..Len(last.codes) :
              Normalized(last.codes[i]) \in Keys(nuts_data)) =>
            /\ last.res.tag = "series"
            /\ \A i \in 1..Len(last.res.items) :
                  ~last.res.items[i].absent =>
                      last.res.items[i].val =
                          LastValueAt(nuts_data, last.res.items[i].key)

\* C9: every key of the loaded table is in normalized form, so a source row
\* is found by both resolvers for every case or whitespace variant of its
\* postal code (for one_postal2nuts: the variants it normalizes itself).
C9_KeysNormalized ==
    LET InFile(code) ==
            \E i \in 1..Len(file) :
                Normalized(CleanCell(file[i].postal)) = Normalized(code)
    IN  /\ (/\ OneCalled /\ last.arg.isstr /\ last.level = 3
            /\ OneNormalize(last.arg.s) = Normalized(last.arg.s)
            /\ InFile(last.arg.s)) =>
                last.res.tag # "none"
        /\ (ManyCalled /\ last.level = 3 /\ IsUnique(nuts_data)) =>
                \A i \in 1..Len(last.codes) :
                    InFile(last.codes[i]) => ~last.res.items[i].absent

---------------------------------------------------------------------------
(* Properties of NutsData, under SpecData *)

\* the file the construction works on, in the words of C10: the caller's
\* file when it is given and exists, the cache path otherwise
EffectiveFile ==
    IF call.nuts_file_name # None
       /\ Exists(call.before.files, call.nuts_file_name)
    THEN call.nuts_file_name
    ELSE IF nd.year \in DOMAIN NUTS_DATA
            /\ nd.country \in DOMAIN NUTS_DATA[nd.year].files
         THEN CachePath(NUTS_DATA[nd.year].files[nd.country])
         ELSE DotPath

RequestIffForcedOrMissing ==
    /\ (call.requests > 0) <=>
          (call.force_download \/ ~Exists(call.before.files, EffectiveFile))
    /\ (/\ call.raised = "" /\ call.nuts_file_name # None
        /\ Exists(call.before.files, call.nuts_file_name)) =>
          nd.nuts_codes_file = call.nuts_file_name

CatalogMiss == call.raised \in {"KeyError year", "KeyError country"}

\* C10 as stated: every construction issues a network request if and only
\* if force_download is true or the effective table file does not exist.
C10_Original == Constructed => RequestIffForcedOrMissing

\* C10 as amended: a construction whose year and country are in the catalog
\* issues a network request if and only if force_download is true or the
\* effective table file does not exist; a construction that fails on the
\* catalog issues none.
C10_RequestIffForcedOrMissing ==
    Constructed =>
        /\ ~CatalogMiss => RequestIffForcedOrMissing
        /\ CatalogMiss => call.requests = 0

\* C10 witness: the caller's file exists, no force: no request
C10_Witness ==
    /\ Constructed /\ ~CatalogMiss /\ ~call.force_download
    /\ call.nuts_file_name = UserPath
    /\ Exists(call.before.files, UserPath)
    /\ nd.nuts_codes_file = UserPath
    /\ call.requests = 0

---------------------------------------------------------------------------
(* Properties of download_nuts_codes, under SpecData *)

Is2xx(resp) == resp >= 200 /\ resp <= 299

\* C11: download_nuts_codes issues a single GET; on a non-2xx response or a
\* transport failure it leaves every file as it was, raises nothing and
\* returns False; it returns True only after the body of a 2xx response has
\* been written to the target file.
C11_DownloadFailsQuietly ==
    (Constructed /\ call.download # "not called") =>
        /\ call.requests = 1
        /\ ~Is2xx(call.resp) =>
              /\ fs.files = call.before.files
              /\ call.download = "False"
        /\ call.download = "True" =>
              /\ Is2xx(call.resp)
              /\ fs.files[nd.nuts_codes_file] = "body"

---------------------------------------------------------------------------
(* Properties of the settings file, under SpecData *)

\* default_settings as the constructor builds it from its arguments
DefaultSettings ==
    [exists |-> TRUE,
     year |-> IF call.year # None THEN call.year ELSE DEFAULT_YEAR,
     country |-> IF call.country # None THEN call.country
                 ELSE DEFAULT_COUNTRY,
     catalog |-> NUTS_DATA]

\* C12: a construction writes the settings file if and only if the file does
\* not exist or update_settings is true; with the file there and
\* update_settings false the file keeps its content, and the year and country
\* of the object are those stored in the file, whatever arguments were passed.
C12_SettingsWrittenIff ==
    Constructed =>
        /\ (call.before.settings.exists /\ ~call.update_settings) =>
              fs.settings = call.before.settings
        /\ (~call.before.settings.exists \/ call.update_settings) =>
              fs.settings = DefaultSettings
        /\ nd.year = fs.settings.year
        /\ nd.country = fs.settings.country

\* C12 witness: the file stores 2021/NL, the caller passes another year and
\* country without update_settings, and the object has the stored ones
C12_Witness ==
    /\ Constructed /\ call.raised = ""
    /\ call.before.settings.exists /\ ~call.update_settings
    /\ call.year # None /\ call.year # call.before.settings.year
    /\ call.country # None /\ call.country # call.before.settings.country
    /\ fs.settings = call.before.settings
    /\ nd.year = call.before.settings.year
    /\ nd.country = call.before.settings.country

\* the year and country of the settings file are in the catalog of the file
InFileCatalog ==
    /\ fs.settings.year \in DOMAIN fs.settings.catalog
    /\ fs.settings.country
          \in DOMAIN fs.settings.catalog[fs.settings.year].files

\* C13: the catalog stored in the settings file is the one the download
\* target is resolved from: the url and the cache file name of the object
\* are those of the file's catalog, also when a user edit made it differ
\* from the built-in catalog.
C13_FileCatalogWins ==
    (Constructed /\ InFileCatalog) =>
        LET entry == fs.settings.catalog[fs.settings.year]
            remote_file_name == entry.files[fs.settings.country]
        IN  /\ ~CatalogMiss
            /\ nd.url = <<entry.url, "/", remote_file_name>>
            /\ EffectiveFile # call.nuts_file_name =>
                  nd.nuts_codes_file = CachePath(remote_file_name)

---------------------------------------------------------------------------
(* Properties of impose_nuts_settings, under SpecData *)

\* C14: impose_nuts_settings fails with the unknown-year error when the year
\* of the settings is not in the catalog, whatever the country, and with the
\* unknown-country error when the year is known and the country is not; in
\* both cases no request is issued, no file changes and nuts_codes_file
\* stays the path it was initialised with.
C14_CatalogMissFailsEarly ==
    Constructed =>
        /\ (call.raised = "KeyError year") <=>
              nd.year \notin DOMAIN NUTS_DATA
        /\ (call.raised = "KeyError country") <=>
              /\ nd.year \in DOMAIN NUTS_DATA
              /\ nd.country \notin DOMAIN NUTS_DATA[nd.year].files
        /\ CatalogMiss =>
              /\ call.requests = 0
              /\ call.download = "not called"
              /\ fs.files = call.before.files
              /\ nd.nuts_codes_file = DotPath

\* C14 witness: neither the year nor the country is in the catalog, the
\* caller's file exists and a download is forced: the year error is raised
C14_Witness ==
    /\ Constructed
    /\ nd.year = "1999" /\ nd.country = "XX"
    /\ call.force_download
    /\ call.nuts_file_name = UserPath /\ Exists(call.before.files, UserPath)
    /\ call.raised = "KeyError year"
    /\ call.requests = 0
    /\ nd.nuts_codes_file = DotPath

\* impose_nuts_settings() has been called on the constructed object
Imposed == call.op = "impose"

---------------------------------------------------------------------------
(* Properties of check_if_valid_nuts_level, under SpecLevel *)

LevelChecked == checked.op = "check"

\* the argument converts to an integer: it is one, or it is a text that
\* int() reads as one
Converts(value) ==
    \/ value.kind = "int"
    \/ value.kind = "str" /\ IntOfStr(value.s).exc = ""

\* C16 as stated: check_if_valid_nuts_level returns the integer for every
\* argument that converts to an integer in 0..3, raises ArgumentTypeError for
\* every argument that does not convert to an integer and for every integer
\* below 0 or above 3, and never returns a value outside 0..3.
C16_Original ==
    LevelChecked =>
        LET value == checked.value
            n == ToInt(value).n
        IN  /\ (Converts(value) /\ n \in 0..3) =>
                  checked.res = LevelReturned(n)
            /\ (Converts(value) /\ n \notin 0..3) =>
                  checked.res = LevelRaised("ArgumentTypeError")
            /\ ~Converts(value) =>
                  checked.res = LevelRaised("ArgumentTypeError")
            /\ checked.res.tag = "returned" => checked.res.n \in 0..3

\* C16 as amended: for a string or an integer argument the function returns
\* the integer when it converts to one in 0..3 and raises ArgumentTypeError
\* when it does not convert or converts to an integer below 0 or above 3;
\* for None it raises TypeError; it never returns a value outside 0..3.
C16_LevelValidated ==
    LevelChecked =>
        LET value == checked.value
            n == ToInt(value).n
        IN  /\ (Converts(value) /\ n \in 0..3) =>
                  checked.res = LevelReturned(n)
            /\ (Converts(value) /\ n \notin 0..3) =>
                  checked.res = LevelRaised("ArgumentTypeError")
            /\ (value.kind = "str" /\ ~Converts(value)) =>
                  checked.res = LevelRaised("ArgumentTypeError")
            /\ value.kind = "NoneType" =>
                  checked.res = LevelRaised("TypeError")
            /\ checked.res.tag = "returned" => checked.res.n \in 0..3

\* C16 witness: the text " -0" converts to 0, which is returned
C16_Witness ==
    /\ LevelChecked
    /\ checked.value.kind = "str"
    /\ checked.value.s = <<" ", "-", "0">>
    /\ checked.res = LevelReturned(0)

---------------------------------------------------------------------------
(* The two resolvers against each other, under SpecResolver *)

\* the outcome of one_postal2nuts(p, L) against that of postal2nuts([p], L):
\* both raise, or the bulk result has one item that is absent when the single
\* result is None and holds the single result otherwise
SingleAgreesWithBulk(one, many) ==
    \/ one.tag = "raise" /\ many.tag = "raise"
    \/ /\ many.tag = "series" /\ Len(many.items) = 1
       /\ \/ many.items[1].absent /\ one = ReturnedNone
          \/ ~many.items[1].absent /\ one = Returned(many.items[1].val)

\* C17: on a table with unique keys, for every string p and every level L,
\* postal2nuts([p], L) has one_postal2nuts(p, L) as its only value, absent
\* standing for None, and both succeed or both raise; also for p with tabs
\* or newlines and for L outside 0..3.
C17_SingleAgreesWithBulk ==
    (OneCalled /\ last.arg.isstr /\ IsUnique(nuts_data)) =>
        SingleAgreesWithBulk(
            last.res, postal2nuts(nuts_data, <<last.arg.s>>, last.level))

---------------------------------------------------------------------------
(* Frame of a construction, under SpecData *)

\* C18: a download writes only to the cache path: whatever the constructor
\* arguments, also force_download together with an existing caller's file,
\* the caller's table file has the content it had before the construction.
C18_CallerFileUntouched ==
    Constructed =>
        /\ fs.files[UserPath] = call.before.files[UserPath]
        /\ \A p \in TablePaths :
              fs.files[p] # call.before.files[p] =>
                  /\ ~CatalogMiss
                  /\ p = CachePath(NUTS_DATA[nd.year].files[nd.country])

\* C19: a construction that fails because the year or the country is not in
\* the catalog leaves the settings file as it was before the call; an
\* invalid year or country is not persisted, with update_settings or
\* without.
C19_FailedConstructionKeepsSettings ==
    (/\ Constructed /\ CatalogMiss
     /\ \/ call.year \notin DOMAIN NUTS_DATA \cup {None}
        \/ call.country \notin {"NL", "BE", None}) =>
        fs.settings = call.before.settings

====
